---------------------------- MODULE Spec2Model ----------------------------
(***************************************************************************)
(* Model of src/controllers/userController.ts: the user identity and       *)
(* profile lifecycle.  The handlers of the router are the actions; the     *)
(* two tables the handlers reach through the ORM (User, UserProfile) are   *)
(* the state.  A handler that awaits more than one store call is split at  *)
(* its awaits, so that other requests interleave between its store calls.  *)
(*                                                                         *)
(* JSON values are tagged tuples, so that a null, a string, a number, a    *)
(* date and a nested object can be told apart by the null filters:         *)
(*   <<"null">>  <<"undefined">>  <<"str", s>>  <<"num", n>>               *)
(*   <<"iso", y, m, d>>   a date-only string "y-m-d" (month 1-based)       *)
(*   <<"date", y, m, d>>  a Date (month 0-based, as getMonth reports it)   *)
(*   <<"obj", o>>  <<"arr", S>>                                            *)
(* A JSON object is a function from its keys to such values.  The          *)
(* createdAt / updatedAt timestamps of both tables are left out: no        *)
(* handler reads them.  Of the twelve profile columns firstName stands for *)
(* the ten text columns, which the handlers treat alike; dob and age are   *)
(* kept as they are.                                                       *)
(*                                                                         *)
(* A request that authGuard turns away never reaches a handler and is not  *)
(* modelled; callerRole is the role the guard put on the request.  The     *)
(* store fails a call only where a constraint of its schema says so: an    *)
(* outage of the database or of the hasher is not modelled.  A Date is     *)
(* the calendar date its local getters report; the server runs in UTC      *)
(* (docker-compose.yml sets no time zone), where new Date("y-m-d") is that *)
(* very day.  No midnight passes during a run of Spec: today stays the     *)
(* date the service started on.                                            *)
(***************************************************************************)
EXTENDS Integers, Sequences, FiniteSets, Bags, TLC

VARIABLES
    users,          \* the User table: a set of rows
    profiles,       \* the UserProfile table: a set of rows (JSON objects)
    nextUserId,     \* the store's generator of userId
    nextProfileId,  \* the store's generator of profileId
    uniqueOwner,    \* whether UserProfile.userId carries a unique constraint
    inflight,       \* bag of requests suspended between two store calls
    response,       \* the response the step just taken sent, with its request
    today,          \* the calendar date new Date() reports
    birthday,       \* argument of a direct call of calculateAge
    age             \* result of that call: << >> before it, <<n>> after

vars == <<users, profiles, nextUserId, nextProfileId, uniqueOwner, inflight,
          response, today, birthday, age>>

store == <<users, profiles, nextUserId, nextProfileId>>

-----------------------------------------------------------------------------
(* Bounds *)

MaxId == 2
MaxInFlight == 1
MaxYear == 3
MaxMonth == 3
MaxDay == 3

-----------------------------------------------------------------------------
(* Input domains *)

Emails == {"a@x.com", "b@x.com"}
Passwords == {"pw1", "pw2"}
Roles == {"UNVERIFIED", "VERIFIED", "ADMIN"}
DefaultRole == "UNVERIFIED"

JNull == <<"null">>
Undefined == <<"undefined">>
Str(s) == <<"str", s>>
Num(n) == <<"num", n>>
Iso(y, m, d) == <<"iso", y, m, d>>
Obj(o) == <<"obj", o>>
Arr(S) == <<"arr", S>>
EmptyObject == [k \in {} |-> JNull]

Dates == [year : 0..MaxYear, month : 0..(MaxMonth - 1), day : 1..MaxDay]

FirstNames == {Undefined, JNull, Str("Ann")}
StartToday == [year |-> MaxYear, month |-> 1, day |-> 1]
DobInputs == {Iso(0, 2, 2), Iso(2, 1, 1)}
DobPatches == {Undefined, JNull} \cup DobInputs

-----------------------------------------------------------------------------
(* Pure functions *)

Hash(password) == "$argon2id$" \o password

NewDate(dob) == [year |-> dob[2], month |-> dob[3] - 1, day |-> dob[4]]

DateValue(d) == <<"date", d.year, d.month, d.day>>

getFullYear(d) == d.year
getMonth(d) == d.month
getDate(d) == d.day

\* calculateAge with the day compared by <= : the birthday itself not counted
calculateAgeDayIncluded(b) ==
    LET a == getFullYear(today) - getFullYear(b)
        monthDifference == getMonth(today) - getMonth(b)
    IN  IF monthDifference < 0
           \/ (monthDifference = 0 /\ getDate(today) <= getDate(b))
        THEN a - 1
        ELSE a

calculateAge(b) ==
    LET a == getFullYear(today) - getFullYear(b)
        monthDifference == getMonth(today) - getMonth(b)
    IN  IF monthDifference < 0
           \/ (monthDifference = 0 /\ getDate(today) < getDate(b))
        THEN a - 1
        ELSE a

\* removeNullFields that filters nothing
removeNullFieldsKeepsAll(obj) == obj

removeNullFields(obj) ==
    [k \in {f \in DOMAIN obj : obj[f] # JNull} |-> obj[k]]

Truthy(v) == v # Undefined /\ v # JNull

\* res.json: JSON.stringify leaves out the keys whose value is undefined
Serialize(obj) ==
    [k \in {f \in DOMAIN obj : obj[f] # Undefined} |-> obj[k]]

\* { ...a, ...b }: the keys of both, b's values winning
Spread(a, b) ==
    [k \in (DOMAIN a) \cup (DOMAIN b) |-> IF k \in DOMAIN b THEN b[k] ELSE a[k]]

-----------------------------------------------------------------------------
(* The store *)

UserByEmail(email) == {u \in users : u.email = email}
UserById(userId) == {u \in users : u.userId = userId}
ProfilesOf(userId) == {p \in profiles : p.userId = Num(userId)}

\* select: { userId, email, role, [userProfile] }: never the password
Selected(u) == [userId |-> Num(u.userId), email |-> Str(u.email), role |-> Str(u.role)]

\* a row of User as the ORM returns it without a select: every column
FullRow(u) ==
    [userId |-> Num(u.userId), email |-> Str(u.email),
     password |-> Str(u.password), role |-> Str(u.role)]

\* include: { userProfile: true }: the related row, or none (EmptyObject for
\* the ORM's null); were the relation not unique, any of the related rows
IncludeProfile(userId) ==
    IF ProfilesOf(userId) = {} THEN {EmptyObject} ELSE ProfilesOf(userId)

\* a response with the handler that sent it and, for a handler that writes a
\* role, the role the row held before; patch is the request body of a
\* profile update that was written
Reply(op, status, body, prevRole) ==
    [op |-> op, status |-> status, body |-> body, prevRole |-> prevRole,
     patch |-> EmptyObject]

ErrorBody(msg) == [error |-> Str(msg)]

\* a step that sends nothing
NoReply == Reply("-", 0, EmptyObject, "-")

-----------------------------------------------------------------------------
(* POST / *)

\* Register as an upsert: a taken email gets the new password
RegisterUpsert(email, password) ==
    LET hashedPassword == Hash(password)
        user == [userId |-> nextUserId, email |-> email,
                 password |-> hashedPassword, role |-> DefaultRole]
    IN  \/ /\ UserByEmail(email) = {}
           /\ nextUserId <= MaxId
           /\ users' = users \cup {user}
           /\ nextUserId' = nextUserId + 1
           /\ response' = Reply("register", 200,
                                [id |-> Num(user.userId), email |-> Str(user.email),
                                 role |-> Str(user.role)], "-")
           /\ UNCHANGED <<profiles, nextProfileId, uniqueOwner, inflight, today,
                          birthday, age>>
        \/ /\ \E u \in UserByEmail(email) :
                 /\ users' = (users \ {u}) \cup {[u EXCEPT !.password = hashedPassword]}
                 /\ response' = Reply("register", 200,
                                      [id |-> Num(u.userId), email |-> Str(u.email),
                                       role |-> Str(u.role)], "-")
           /\ UNCHANGED <<profiles, nextUserId, nextProfileId, uniqueOwner, inflight,
                          today, birthday, age>>

Register(email, password) ==
    LET hashedPassword == Hash(password)
        user == [userId |-> nextUserId, email |-> email,
                 password |-> hashedPassword, role |-> DefaultRole]
    IN  \/ /\ UserByEmail(email) = {}
           /\ nextUserId <= MaxId
           /\ users' = users \cup {user}
           /\ nextUserId' = nextUserId + 1
           /\ response' = Reply("register", 200,
                                [id |-> Num(user.userId), email |-> Str(user.email),
                                 role |-> Str(user.role)], "-")
           /\ UNCHANGED <<profiles, nextProfileId, uniqueOwner, inflight, today,
                          birthday, age>>
        \/ /\ UserByEmail(email) # {}
           /\ response' = Reply("register", 500,
                                ErrorBody("An error occurred. Make sure the email is not already registered!"), "-")
           /\ UNCHANGED <<store, uniqueOwner, inflight, today, birthday, age>>

-----------------------------------------------------------------------------
(* GET /:email *)

GetUserReply(email, u, p) ==
    LET userProfile == IF p # EmptyObject THEN Obj(removeNullFields(p)) ELSE JNull
    IN  Reply("getUser", 200,
              Serialize(Spread(Selected(u), [userProfile |-> userProfile])), "-")

GetUserNotFound(email) ==
    Reply("getUser", 404, [message |-> Str("There is no user with that email address!")], "-")

\* the replies getUser(email) can give in the current state
GetUserReplies(email) ==
    IF UserByEmail(email) = {}
    THEN {GetUserNotFound(email)}
    ELSE {GetUserReply(email, u, p) :
            u \in UserByEmail(email),
            p \in UNION {IncludeProfile(q.userId) : q \in UserByEmail(email)}}

GetUser(email) ==
    /\ \E r \in GetUserReplies(email) : response' = r
    /\ UNCHANGED <<store, uniqueOwner, inflight, today, birthday, age>>

-----------------------------------------------------------------------------

(* POST /:email/profile *)

Request(op, pc, email, userId, userProfile) ==
    [op |-> op, pc |-> pc, email |-> email, userId |-> userId,
     userProfile |-> userProfile]

Suspend(r) == inflight' = inflight (+) SetToBag({r})
Resume(r, s) == inflight' = (inflight (-) SetToBag({r})) (+) SetToBag({s})
Finish(r) == inflight' = inflight (-) SetToBag({r})

\* const existingUser = await prisma.user.findUnique({ where: { email } })
AttachProfileFind(email) ==
    /\ BagCardinality(inflight) < MaxInFlight
    /\ \/ /\ UserByEmail(email) = {}
          /\ response' = Reply("attachProfile", 404, ErrorBody("User not found"), "-")
          /\ UNCHANGED inflight
       \/ /\ \E existingUser \in UserByEmail(email) :
                Suspend(Request("attachProfile", "create", email,
                                existingUser.userId, EmptyObject))
          /\ response' = NoReply
    /\ UNCHANGED <<store, uniqueOwner, today, birthday, age>>

\* the row prisma.userProfile.create is asked to insert; a column that is
\* given undefined or null is stored null
NewProfile(profileId, userId, firstName, dob) ==
    LET bday == NewDate(dob)
        years == calculateAge(bday)
        Column(v) == IF v = Undefined THEN JNull ELSE v
    IN  [profileId |-> Num(profileId), userId |-> Num(userId),
         firstName |-> Column(firstName),
         dob |-> DateValue(bday), age |-> Num(years)]

\* the store accepts the insert: the owner exists (foreign key) and, under
\* the one-to-one constraint, owns no profile yet
CreateAccepted(userId) ==
    /\ UserById(userId) # {}
    /\ uniqueOwner => ProfilesOf(userId) = {}

\* const userProfile = await prisma.userProfile.create({ data: ... })
\* The request body is chosen here: nothing reads it before this call.
AttachProfileCreate(r, firstName, dob) ==
    /\ r \in BagToSet(inflight)
    /\ r.op = "attachProfile" /\ r.pc = "create"
    /\ \/ /\ CreateAccepted(r.userId)
          /\ nextProfileId <= MaxId
          /\ LET userProfile == NewProfile(nextProfileId, r.userId, firstName, dob)
             IN  /\ profiles' = profiles \cup {userProfile}
                 /\ Resume(r, Request("attachProfile", "update", r.email, r.userId,
                                      userProfile))
          /\ nextProfileId' = nextProfileId + 1
          /\ response' = NoReply
          /\ UNCHANGED <<users, nextUserId>>
       \/ /\ ~CreateAccepted(r.userId)
          /\ Finish(r)
          /\ response' = Reply("attachProfile", 500,
                               ErrorBody("An error occurred. Make sure the user exists!"), "-")
          /\ UNCHANGED store
    /\ UNCHANGED <<uniqueOwner, today, birthday, age>>

\* the merged view sent back: null-valued fields filtered out
AttachProfileBody(userProfile, updatedUser) ==
    LET responseUserProfile ==
            Spread(userProfile, [role |-> Str(updatedUser.role),
                                 email |-> Str(updatedUser.email)])
        filteredResponseUserProfile ==
            [k \in {f \in DOMAIN responseUserProfile : responseUserProfile[f] # JNull}
               |-> responseUserProfile[k]]
    IN  Serialize(filteredResponseUserProfile)

\* the role written only to a user who is not an ADMIN
AttachRoleKeepsAdmin(u) == IF u.role = "ADMIN" THEN "ADMIN" ELSE "VERIFIED"

\* data: { role: "VERIFIED", userProfile: { connect: { profileId } } }
AttachRole(u) == "VERIFIED"

\* const updatedUser = await prisma.user.update({ where: { email }, ... })
AttachProfileUpdate(r) ==
    /\ r \in BagToSet(inflight)
    /\ r.op = "attachProfile" /\ r.pc = "update"
    /\ Finish(r)
    /\ \/ /\ UserByEmail(r.email) # {}
          /\ \E p \in profiles : p.profileId = r.userProfile.profileId
          /\ \E u \in UserByEmail(r.email) :
                LET updatedUser == [u EXCEPT !.role = AttachRole(u)]
                IN  /\ users' = (users \ {u}) \cup {updatedUser}
                    /\ profiles' =
                          {IF p.profileId = r.userProfile.profileId
                           THEN [p EXCEPT !.userId = Num(u.userId)] ELSE p :
                             p \in profiles}
                    /\ response' = Reply("attachProfile", 200,
                                         AttachProfileBody(r.userProfile, updatedUser), u.role)
          /\ UNCHANGED <<nextUserId, nextProfileId>>
       \/ /\ \/ UserByEmail(r.email) = {}
             \/ ~ \E p \in profiles : p.profileId = r.userProfile.profileId
          /\ response' = Reply("attachProfile", 500,
                               ErrorBody("An error occurred. Make sure the user exists!"), "-")
          /\ UNCHANGED store
    /\ UNCHANGED <<uniqueOwner, today, birthday, age>>

-----------------------------------------------------------------------------
(* PATCH /:email/profile *)

\* UpdateProfileFind with one message for both absences
UpdateProfileFindOneMessage(email) ==
    /\ BagCardinality(inflight) < MaxInFlight
    /\ \/ /\ \/ UserByEmail(email) = {}
             \/ \E existingUser \in UserByEmail(email) :
                   ProfilesOf(existingUser.userId) = {}
          /\ response' = Reply("updateProfile", 404, ErrorBody("User not found"), "-")
          /\ UNCHANGED inflight
       \/ /\ \E existingUser \in UserByEmail(email) :
                \E userProfile \in ProfilesOf(existingUser.userId) :
                   Suspend(Request("updateProfile", "update", email,
                                   existingUser.userId, userProfile))
          /\ response' = NoReply
    /\ UNCHANGED <<store, uniqueOwner, today, birthday, age>>

\* const existingUser = await prisma.user.findUnique({ where, include })
UpdateProfileFind(email) ==
    /\ BagCardinality(inflight) < MaxInFlight
    /\ \/ /\ UserByEmail(email) = {}
          /\ response' = Reply("updateProfile", 404, ErrorBody("User not found"), "-")
          /\ UNCHANGED inflight
       \/ /\ \E existingUser \in UserByEmail(email) :
                /\ ProfilesOf(existingUser.userId) = {}
                /\ response' = Reply("updateProfile", 404,
                                     ErrorBody("UserProfile not found"), "-")
          /\ UNCHANGED inflight
       \/ /\ \E existingUser \in UserByEmail(email) :
                \E userProfile \in ProfilesOf(existingUser.userId) :
                   Suspend(Request("updateProfile", "update", email,
                                   existingUser.userId, userProfile))
          /\ response' = NoReply
    /\ UNCHANGED <<store, uniqueOwner, today, birthday, age>>

\* the object handed to prisma.userProfile.update before the null filter
UpdateData(firstName, dob) ==
    LET updateData == [firstName |-> firstName, dob |-> dob]
    IN  IF Truthy(dob)
        THEN LET bday == NewDate(dob)
                 years == calculateAge(bday)
             IN  Spread(updateData, [dob |-> DateValue(bday), age |-> Num(years)])
        ELSE updateData

\* prisma update: a key given undefined is left alone, any other is written
ApplyUpdate(row, data) ==
    [k \in DOMAIN row |->
        IF k \in DOMAIN data /\ data[k] # Undefined THEN data[k] ELSE row[k]]

\* const updatedProfile = await prisma.userProfile.update({ where, data })
\* The request body is chosen here: only the write reads it.
UpdateProfileUpdate(r, firstName, dob) ==
    /\ r \in BagToSet(inflight)
    /\ r.op = "updateProfile" /\ r.pc = "update"
    /\ Finish(r)
    /\ \/ \E p \in profiles :
             /\ p.profileId = r.userProfile.profileId
             /\ LET updatedProfile ==
                        ApplyUpdate(p, removeNullFields(UpdateData(firstName, dob)))
                IN  /\ profiles' = (profiles \ {p}) \cup {updatedProfile}
                    /\ response' =
                          [Reply("updateProfile", 200, Serialize(updatedProfile), "-")
                             EXCEPT !.patch = [firstName |-> firstName, dob |-> dob]]
             /\ UNCHANGED <<users, nextUserId, nextProfileId>>
       \/ /\ ~ \E p \in profiles : p.profileId = r.userProfile.profileId
          /\ response' = Reply("updateProfile", 500,
                               ErrorBody("An error occurred while updating the UserProfile."), "-")
          /\ UNCHANGED store
    /\ UNCHANGED <<uniqueOwner, today, birthday, age>>

-----------------------------------------------------------------------------
(* GET / *)

UserWithProfile(u, p) ==
    Spread(Selected(u), [userProfile |-> IF p = EmptyObject THEN JNull ELSE Obj(p)])

ListUsers ==
    /\ \E include \in [users -> profiles \cup {EmptyObject}] :
          /\ \A u \in users : include[u] \in IncludeProfile(u.userId)
          /\ response' = Reply("listUsers", 200,
                               Arr({Serialize(UserWithProfile(u, include[u])) : u \in users}), "-")
    /\ UNCHANGED <<store, uniqueOwner, inflight, today, birthday, age>>

-----------------------------------------------------------------------------
(* PATCH /:email *)

UpdatePassword(email, password) ==
    LET hashedPassword == Hash(password)
    IN  /\ \/ \E u \in UserByEmail(email) :
                 LET updatedUser == [u EXCEPT !.password = hashedPassword]
                 IN  /\ users' = (users \ {u}) \cup {updatedUser}
                     /\ response' =
                           Reply("updatePassword", 200,
                                 [id |-> Num(updatedUser.userId),
                                  email |-> Str(updatedUser.email),
                                  message |-> Str("Your password has been successfully updated! Don't lose it this time...")], "-")
           \/ /\ UserByEmail(email) = {}
              /\ response' = Reply("updatePassword", 500,
                                   ErrorBody("An error occurred while updating the user."), "-")
              /\ UNCHANGED users
        /\ UNCHANGED <<profiles, nextUserId, nextProfileId, uniqueOwner, inflight,
                       today, birthday, age>>

-----------------------------------------------------------------------------
(* DELETE /:email *)

\* the rows of UserProfile left when the user userId is deleted: the delete
\* cascades to the profiles the user owns
Cascade(userId) == {p \in profiles : p.userId # Num(userId)}

\* DeleteUser that reads the row and deletes nothing
DeleteUserLeavesRow(email) ==
    /\ \/ \E u \in UserByEmail(email) :
             response' = Reply("deleteUser", 200, Serialize(Selected(u)), "-")
       \/ /\ UserByEmail(email) = {}
          /\ response' = Reply("deleteUser", 500,
                               ErrorBody("An error occurred while deleting the user."), "-")
    /\ UNCHANGED <<store, uniqueOwner, inflight, today, birthday, age>>

DeleteUser(email) ==
    /\ \/ \E u \in UserByEmail(email) :
             LET deletedUser == Selected(u)
             IN  /\ users' = users \ {u}
                 /\ profiles' = Cascade(u.userId)
                 /\ response' = Reply("deleteUser", 200, Serialize(deletedUser), "-")
       \/ /\ UserByEmail(email) = {}
          /\ response' = Reply("deleteUser", 500,
                               ErrorBody("An error occurred while deleting the user."), "-")
          /\ UNCHANGED <<users, profiles>>
    /\ UNCHANGED <<nextUserId, nextProfileId, uniqueOwner, inflight, today,
                   birthday, age>>

-----------------------------------------------------------------------------
(* PATCH /:userId/promote and PATCH /:userId/demote *)

\* the guard that turns away only the UNVERIFIED
PermittedNotUnverified(callerRole) == callerRole # "UNVERIFIED"

\* if (req.user.role !== 'ADMIN') return res.status(403)
Permitted(callerRole) == callerRole = "ADMIN"

PromoteRole == "ADMIN"
DemoteRole == "VERIFIED"

\* res.json(updatedUser): the row as prisma.user.update returns it
UpdatedUserBody(updatedUser) == Serialize(FullRow(updatedUser))

SetRole(op, callerRole, userId, role, failure) ==
    /\ \/ /\ ~Permitted(callerRole)
          /\ response' = Reply(op, 403, [message |-> Str("Insufficient permissions.")], "-")
          /\ UNCHANGED users
       \/ /\ Permitted(callerRole)
          /\ \E u \in UserById(userId) :
                LET updatedUser == [u EXCEPT !.role = role]
                IN  /\ users' = (users \ {u}) \cup {updatedUser}
                    /\ response' = Reply(op, 200, UpdatedUserBody(updatedUser), u.role)
       \/ /\ Permitted(callerRole)
          /\ UserById(userId) = {}
          /\ response' = Reply(op, 500, ErrorBody(failure), "-")
          /\ UNCHANGED users
    /\ UNCHANGED <<profiles, nextUserId, nextProfileId, uniqueOwner, inflight,
                   today, birthday, age>>

Promote(callerRole, userId) ==
    SetRole("promote", callerRole, userId, PromoteRole,
            "An error occurred while promoting the user.")

Demote(callerRole, userId) ==
    SetRole("demote", callerRole, userId, DemoteRole,
            "An error occurred while demoting the user.")

-----------------------------------------------------------------------------
(* A direct call of calculateAge *)

NoDate == [year |-> 0, month |-> 0, day |-> 1]
NoAge == << >>

CalculateAgeCall ==
    /\ age = NoAge
    /\ age' = <<calculateAge(birthday)>>
    /\ UNCHANGED <<store, uniqueOwner, inflight, response, today, birthday>>

-----------------------------------------------------------------------------
(* Specifications *)

EmptyStore ==
    /\ users = {}
    /\ profiles = {}
    /\ nextUserId = 1
    /\ nextProfileId = 1
    /\ inflight = EmptyBag
    /\ response = NoReply

\* the service started on an empty database, UserProfile.userId unique
Init ==
    /\ EmptyStore
    /\ uniqueOwner = TRUE
    /\ today = StartToday
    /\ birthday = NoDate
    /\ age = NoAge

\* the same service on a store that puts no unique constraint on the owner
InitNoUnique ==
    /\ EmptyStore
    /\ uniqueOwner = FALSE
    /\ today = StartToday
    /\ birthday = NoDate
    /\ age = NoAge

\* calculateAge alone, on every pair of dates
InitAge ==
    /\ EmptyStore
    /\ uniqueOwner = TRUE
    /\ today \in Dates
    /\ birthday \in Dates
    /\ age = NoAge

Next ==
    \/ \E email \in Emails, password \in Passwords : Register(email, password)
    \/ \E email \in Emails : AttachProfileFind(email)
    \/ \E r \in BagToSet(inflight), firstName \in FirstNames,
          dob \in DobInputs : AttachProfileCreate(r, firstName, dob)
    \/ \E r \in BagToSet(inflight) : AttachProfileUpdate(r)
    \/ \E email \in Emails : UpdateProfileFind(email)
    \/ \E r \in BagToSet(inflight), firstName \in FirstNames,
          dob \in DobPatches : UpdateProfileUpdate(r, firstName, dob)
    \/ ListUsers
    \/ \E email \in Emails : GetUser(email)
    \/ \E email \in Emails, password \in Passwords : UpdatePassword(email, password)
    \/ \E email \in Emails : DeleteUser(email)
    \/ \E callerRole \in Roles, userId \in 1..MaxId : Promote(callerRole, userId)
    \/ \E callerRole \in Roles, userId \in 1..MaxId : Demote(callerRole, userId)

NextAge == CalculateAgeCall

Spec == Init /\ [][Next]_vars
SpecNoUnique == InitNoUnique /\ [][Next]_vars
SpecAge == InitAge /\ [][NextAge]_vars

-----------------------------------------------------------------------------
(* Properties *)

\* the JSON objects a response holds: the body, or the elements of an array
ReplyObjects(r) == IF r.op = "listUsers" THEN r.body[2] ELSE {r.body}

\* every key sent back, the keys of a nested object included
ReturnedFields(r) ==
    UNION {DOMAIN o \cup
             UNION {DOMAIN o[k][2] : k \in {f \in DOMAIN o : o[f][1] = "obj"}} :
           o \in ReplyObjects(r)}

\* the email a response names
RepliedEmail == response.body.email[2]

\* C1: no response of any operation, successful or failed, holds the
\* password field.
C1_NoPasswordInResponse == "password" \notin ReturnedFields(response)

\* C2: a user whose role is VERIFIED has a Profile.
C2_VerifiedHasProfile ==
    \A u \in users : u.role = "VERIFIED" => ProfilesOf(u.userId) # {}

\* C3: promote by a caller whose role is not ADMIN answers 403 'Insufficient
\* permissions.' and changes no user; promote by an ADMIN on an existing
\* target leaves the target ADMIN and the other users as they were; and a
\* user that was not ADMIN is ADMIN after a step only if the step is a
\* promote by an ADMIN.
C3_AdminOnlyByAdminPromote ==
    [][/\ response'.op = "promote" =>
             /\ \A callerRole \in Roles \ {"ADMIN"}, userId \in 1..MaxId :
                   Promote(callerRole, userId) =>
                      /\ response'.status = 403
                      /\ response'.body = [message |-> Str("Insufficient permissions.")]
                      /\ users' = users
             /\ \A userId \in 1..MaxId :
                   (UserById(userId) # {} /\ Promote("ADMIN", userId)) =>
                      /\ response'.status = 200
                      /\ \A u \in users' : u.userId = userId => u.role = "ADMIN"
                      /\ \A u \in users' : u.userId # userId => u \in users
       /\ (/\ users' # users
           /\ \E v \in users' :
                 /\ v.role = "ADMIN"
                 /\ ~ \E u \in users : u.userId = v.userId /\ u.role = "ADMIN")
             => \E userId \in 1..MaxId : Promote("ADMIN", userId)
      ]_vars

C3_Witness ==
    /\ response.op = "promote" /\ response.status = 200
    /\ response.prevRole = "UNVERIFIED"
    /\ \E u \in users : u.role = "ADMIN" /\ Num(u.userId) = response.body.userId

\* C4: no user owns more than one Profile, whether or not the store puts a
\* unique constraint on the owner.
C4_AtMostOneProfile ==
    \A u \in users : Cardinality(ProfilesOf(u.userId)) <= 1

\* C5: right after a successful attachProfile, whatever role the user held,
\* the stored role is VERIFIED and getUser on that email returns VERIFIED.
C5_AttachThenVerified ==
    (response.op = "attachProfile" /\ response.status = 200) =>
        /\ response.body.role = Str("VERIFIED")
        /\ \A u \in UserByEmail(RepliedEmail) : u.role = "VERIFIED"
        /\ \A r \in GetUserReplies(RepliedEmail) :
              r.status = 200 /\ r.body.role = Str("VERIFIED")

C5_Witness ==
    /\ response.op = "attachProfile" /\ response.status = 200
    /\ response.prevRole = "ADMIN"
    /\ \E u \in UserByEmail(RepliedEmail) : u.role = "VERIFIED"

\* C6: register succeeds exactly when the email is free; it then adds one
\* user with that email and the default UNVERIFIED role, and getUser returns
\* that email and role and no password; on a taken email it answers 500 and
\* leaves the users and the profiles as they were.
C6_RegisterContract ==
    /\ [](response.op = "register" /\ response.status = 200 =>
            /\ Cardinality(UserByEmail(RepliedEmail)) = 1
            /\ \A r \in GetUserReplies(RepliedEmail) :
                  /\ r.status = 200
                  /\ r.body.email = Str(RepliedEmail)
                  /\ r.body.role = Str("UNVERIFIED")
                  /\ r.body.role = response.body.role
                  /\ "password" \notin ReturnedFields(r))
    /\ [][\A email \in Emails, password \in Passwords :
             (response'.op = "register" /\ Register(email, password)) =>
                IF UserByEmail(email) = {}
                THEN /\ response'.status = 200
                     /\ response'.body.email = Str(email)
                     /\ users \subseteq users'
                     /\ Cardinality(users') = Cardinality(users) + 1
                     /\ \A u \in users' \ users :
                           u.email = email /\ u.role = "UNVERIFIED"
                ELSE /\ response'.status = 500
                     /\ users' = users
                     /\ profiles' = profiles
         ]_vars

C6_Witness ==
    /\ response.op = "register" /\ response.status = 500
    /\ \E u \in users : u.role # "UNVERIFIED" /\ ProfilesOf(u.userId) # {}
    /\ Cardinality(users) = 2

\* C7: a profile update that is written leaves a field given null or not
\* given as it was, writes a field given a value, changes the age only when
\* a date of birth is given, and touches no other profile.
C7_NullNeverClears ==
    [][\A r \in BagToSet(inflight), firstName \in FirstNames, dob \in DobPatches :
          (/\ response'.op = "updateProfile" /\ response'.status = 200
           /\ UpdateProfileUpdate(r, firstName, dob)) =>
             \E p \in profiles :
                LET q == response'.body
                IN  /\ p.profileId = r.userProfile.profileId
                    /\ q \in profiles'
                    /\ profiles' \ {q} = profiles \ {p}
                    /\ q.profileId = p.profileId /\ q.userId = p.userId
                    /\ firstName \in {Undefined, JNull} => q.firstName = p.firstName
                    /\ firstName \notin {Undefined, JNull} => q.firstName = firstName
                    /\ dob \in {Undefined, JNull} => (q.dob = p.dob /\ q.age = p.age)
                    /\ dob \notin {Undefined, JNull} => q.dob = DateValue(NewDate(dob))
                    /\ users' = users
      ]_vars

C7_Witness ==
    /\ response.op = "updateProfile" /\ response.status = 200
    /\ response.patch.firstName = JNull
    /\ response.patch.dob = JNull
    /\ response.body.firstName = Str("Ann")

\* C8: every stored Profile is owned by a user that exists; right after a
\* successful deleteUser, getUser on that email answers not-found; and an
\* email with no user gets one only by a register.
C8_DeleteCascades ==
    /\ [](\A p \in profiles : \E u \in users : p.userId = Num(u.userId))
    /\ [](response.op = "deleteUser" /\ response.status = 200 =>
            GetUserReplies(RepliedEmail) = {GetUserNotFound(RepliedEmail)})
    /\ [][\A email \in Emails :
             (users' # users /\ UserByEmail(email) = {} /\ UserByEmail(email)' # {}) =>
                \E password \in Passwords : Register(email, password)
         ]_vars

C8_Witness ==
    /\ response.op = "deleteUser" /\ response.status = 200
    /\ \E r \in BagToSet(inflight) :
          /\ r.op = "attachProfile" /\ r.pc = "update"
          /\ r.email = RepliedEmail
    /\ profiles = {}

\* C9: attachProfile and updateProfile for an email with no user answer 404
\* 'User not found', updateProfile for a user without a Profile answers 404
\* 'UserProfile not found', and in each case nothing stored changes and the
\* request ends there.
C9_MissingTarget404 ==
    [][\A email \in Emails :
          /\ (UserByEmail(email) = {} /\ AttachProfileFind(email)) =>
                /\ response'.status = 404
                /\ response'.body = [error |-> Str("User not found")]
                /\ UNCHANGED <<users, profiles, inflight>>
          /\ (UserByEmail(email) = {} /\ UpdateProfileFind(email)) =>
                /\ response'.status = 404
                /\ response'.body = [error |-> Str("User not found")]
                /\ UNCHANGED <<users, profiles, inflight>>
          /\ (/\ \E u \in UserByEmail(email) : ProfilesOf(u.userId) = {}
              /\ UpdateProfileFind(email)) =>
                /\ response'.status = 404
                /\ response'.body = [error |-> Str("UserProfile not found")]
                /\ UNCHANGED <<users, profiles, inflight>>
      ]_vars

C9_Witness ==
    /\ response.op = "updateProfile" /\ response.status = 404
    /\ response.body = [error |-> Str("UserProfile not found")]
    /\ \E u \in users : u.role = "ADMIN" /\ ProfilesOf(u.userId) = {}

\* today's (month, day) comes before the birthday's
Precedes(t, b) == t.month * (MaxDay + 1) + t.day < b.month * (MaxDay + 1) + b.day

NotAfter(b, t) == b.year < t.year \/ (b.year = t.year /\ ~Precedes(t, b))

\* C10: for a birthday not after today, calculateAge returns the difference
\* of the years, less one exactly when today's (month, day) comes before the
\* birthday's.
C10_WholeYears ==
    (age # NoAge /\ NotAfter(birthday, today)) =>
        age[1] = (today.year - birthday.year)
                    - (IF Precedes(today, birthday) THEN 1 ELSE 0)

C10_Witness ==
    /\ age # NoAge
    /\ today.year - birthday.year = MaxYear
    /\ birthday.month > today.month
    /\ age = <<MaxYear - 1>>

=============================================================================
